---- MODULE Spec2Model ----
(***************************************************************************)
(* Model of src/acpi/aml/namespace.rs: the AmlValue tagged union and its   *)
(* narrowing accessors, Method::execute, and get_namespace_string.         *)
(*                                                                         *)
(* An AmlValue is a pair <<tag, payload>>.  A Rust String is a sequence of *)
(* one-character strings.  A Result is <<"Ok", x>> or <<"Err", e>>.        *)
(***************************************************************************)
EXTENDS Integers, Sequences, FiniteSets

VARIABLES
    value,      \* the AmlValue an accessor is called on (&self)
    orig,       \* the value as it was constructed
    accessor,   \* name of the last accessor called, "" before any call
    out,        \* the Result the last accessor returned
    current,    \* get_namespace_string: argument current
    modifier_v, \* get_namespace_string: argument modifier_v
    path,       \* get_namespace_string: returned String
    called,     \* TRUE once get_namespace_string has returned
    pc,         \* Method::execute: position in the body
    scope,      \* Method::execute: argument scope
    parameters, \* Method::execute: argument parameters
    ctx,        \* Method::execute: local ctx (AmlExecutionContext)
    namespace,  \* the shared namespace: name -> AmlValue or Absent
    before,     \* the namespace when execute was entered
    result,     \* Method::execute: returned AmlValue
    steps       \* calls made so far by the running execute

vars == <<value, orig, accessor, out, current, modifier_v, path, called,
          pc, scope, parameters, ctx, namespace, before, result, steps>>

valueVars == <<value, orig, accessor, out>>
pathVars == <<current, modifier_v, path, called>>
execVars == <<pc, scope, parameters, ctx, namespace, before, result, steps>>

----------------------------------------------------------------------------
(* Bounds *)

MaxCurrentLen == 3
MaxModifierLen == 3
MaxPackageLen == 2
MaxParameters == 1

----------------------------------------------------------------------------
(* Strings *)

Root == "\\"
Parent == "^"
Separator == "."

Chars == {Root, Parent, Separator, "A"}

Strings(n) == UNION {[1..k -> Chars] : k \in 0..n}

starts_with(s, c) == Len(s) > 0 /\ s[1] = c

ends_with(s, c) == Len(s) > 0 /\ s[Len(s)] = c

----------------------------------------------------------------------------
(* AmlValue *)

Tag(v) == v[1]
Payload(v) == v[2]

AmlNone == <<"None", <<>>>>
Uninitialized == <<"Uninitialized", <<>>>>
Buffer(b) == <<"Buffer", b>>
BufferField(s, i, l) == <<"BufferField", <<s, i, l>>>>
DDBHandle(n) == <<"DDBHandle", n>>
DebugObject == <<"DebugObject", <<>>>>
Device(l) == <<"Device", l>>
Event(e) == <<"Event", e>>
FieldUnit(sel, conn, flags, off, len) == <<"FieldUnit", <<sel, conn, flags, off, len>>>>
Integer(i) == <<"Integer", i>>
IntegerConstant(i) == <<"IntegerConstant", i>>
MethodValue(m) == <<"Method", m>>
Mutex(level, owner) == <<"Mutex", <<level, owner>>>>
ObjectReference(r) == <<"ObjectReference", r>>
OperationRegion(region, off, len, acc, by) == <<"OperationRegion", <<region, off, len, acc, by>>>>
Package(p) == <<"Package", p>>
String(s) == <<"String", s>>
PowerResource(level, order, l) == <<"PowerResource", <<level, order, l>>>>
Processor(id, blk, l) == <<"Processor", <<id, blk, l>>>>
RawDataBuffer(b) == <<"RawDataBuffer", b>>
ThermalZone(l) == <<"ThermalZone", l>>

Method(arg_count, serialized, sync_level, term_list) ==
    [arg_count |-> arg_count, serialized |-> serialized,
     sync_level |-> sync_level, term_list |-> term_list]

Ok(x) == <<"Ok", x>>
Err(e) == <<"Err", e>>
AmlValueError == "AmlValueError"

\* #[derive(Clone)]: a clone is rebuilt field by field, element by element.
RECURSIVE CloneValue(_)
CloneValue(v) ==
    CASE Tag(v) = "Package" ->
            Package([i \in 1..Len(Payload(v)) |-> CloneValue(Payload(v)[i])])
      [] Tag(v) = "BufferField" ->
            BufferField(CloneValue(Payload(v)[1]), CloneValue(Payload(v)[2]),
                        CloneValue(Payload(v)[3]))
      [] Tag(v) \in {"Buffer", "RawDataBuffer", "Device", "ThermalZone", "String"} ->
            <<Tag(v), [i \in 1..Len(Payload(v)) |-> Payload(v)[i]]>>
      [] OTHER -> <<Tag(v), Payload(v)>>

CloneVec(p) == [i \in 1..Len(p) |-> CloneValue(p[i])]

CloneBytes(b) == [i \in 1..Len(b) |-> b[i]]

CloneMethod(m) ==
    Method(m.arg_count, m.serialized, m.sync_level, CloneBytes(m.term_list))

get_as_event(self) ==
    IF Tag(self) = "Event" THEN Ok(Payload(self)) ELSE Err(AmlValueError)

\* get_as_string that also narrows the byte-holding variants
get_as_string_lenient(self) ==
    IF Tag(self) \in {"String", "Buffer", "RawDataBuffer"}
    THEN Ok(CloneBytes(Payload(self))) ELSE Err(AmlValueError)

get_as_string(self) ==
    IF Tag(self) = "String" THEN Ok(CloneBytes(Payload(self))) ELSE Err(AmlValueError)

get_as_buffer(self) ==
    IF Tag(self) = "Buffer" THEN Ok(CloneBytes(Payload(self))) ELSE Err(AmlValueError)

\* get_as_package that hands the elements back in reverse order
get_as_package_reversed(self) ==
    IF Tag(self) = "Package"
    THEN Ok([i \in 1..Len(Payload(self)) |->
                CloneValue(Payload(self)[Len(Payload(self)) + 1 - i])])
    ELSE Err(AmlValueError)

get_as_package(self) ==
    IF Tag(self) = "Package" THEN Ok(CloneVec(Payload(self))) ELSE Err(AmlValueError)

\* get_as_integer that substitutes the number of a plain Integer
get_as_integer_coercing(self) ==
    IF Tag(self) \in {"IntegerConstant", "Integer"}
    THEN Ok(Payload(self)) ELSE Err(AmlValueError)

get_as_integer(self) ==
    IF Tag(self) = "IntegerConstant" THEN Ok(Payload(self)) ELSE Err(AmlValueError)

get_as_method(self) ==
    IF Tag(self) = "Method" THEN Ok(CloneMethod(Payload(self))) ELSE Err(AmlValueError)

----------------------------------------------------------------------------
(* get_namespace_string *)

\* get_namespace_string that pushes the separator unconditionally
get_namespace_string_always_sep(cur, mod) ==
    LET r == get_as_string(mod) IN
    IF r[1] # "Ok" THEN cur
    ELSE LET modifier == r[2] IN
         IF Len(cur) = 0 THEN modifier
         ELSE IF Len(modifier) = 0 THEN cur
         ELSE IF starts_with(modifier, Root) THEN modifier
         ELSE Append(cur, Separator) \o modifier

\* get_namespace_string that gives up with an empty path on a non-string
get_namespace_string_strict(cur, mod) ==
    LET r == get_as_string(mod) IN
    IF r[1] # "Ok" THEN <<>>
    ELSE LET modifier == r[2] IN
         IF Len(cur) = 0 THEN modifier
         ELSE IF Len(modifier) = 0 THEN cur
         ELSE IF starts_with(modifier, Root) THEN modifier
         ELSE LET ns == IF ~ends_with(cur, Root)
                        THEN Append(cur, Separator) ELSE cur
              IN ns \o modifier

\* get_namespace_string whose first test is current.len() <= 1
get_namespace_string_short_current(cur, mod) ==
    LET r == get_as_string(mod) IN
    IF r[1] # "Ok" THEN cur
    ELSE LET modifier == r[2] IN
         IF Len(cur) <= 1 THEN modifier
         ELSE IF Len(modifier) = 0 THEN cur
         ELSE IF starts_with(modifier, Root) THEN modifier
         ELSE LET ns == IF ~ends_with(cur, Root)
                        THEN Append(cur, Separator) ELSE cur
              IN ns \o modifier

get_namespace_string(cur, mod) ==
    LET r == get_as_string(mod) IN
    IF r[1] # "Ok" THEN cur
    ELSE LET modifier == r[2] IN
         IF Len(cur) = 0 THEN modifier
         ELSE IF Len(modifier) = 0 THEN cur
         ELSE IF starts_with(modifier, Root) THEN modifier
         ELSE LET ns == IF ~ends_with(cur, Root)
                        THEN Append(cur, Separator) ELSE cur
              IN ns \o modifier

----------------------------------------------------------------------------
(* Values the accessors are exercised on: every variant of the enum *)

Bytes == {<<>>, <<1>>, <<1, 2>>}

SomeMethod == Method(1, FALSE, 0, <<1, 2>>)

PackageElems ==
    {Integer(1), IntegerConstant(1), String(<<"A">>), Package(<<>>),
     Package(<<Integer(1), Integer(2)>>)}

Packages == {Package(p) : p \in UNION {[1..k -> PackageElems] : k \in 0..MaxPackageLen}}

NonStringValues ==
    {AmlNone, Uninitialized, DebugObject,
     BufferField(Buffer(<<1, 2>>), IntegerConstant(0), IntegerConstant(8)),
     DDBHandle(0), Device(<<<<Root, "A">>>>), Event(0), Event(1),
     FieldUnit(<<"Region", <<Root, "A">>>>, AmlNone, 0, 0, 1),
     Integer(0), Integer(1), IntegerConstant(0), IntegerConstant(1),
     MethodValue(SomeMethod), MethodValue(Method(0, TRUE, 1, <<>>)),
     Mutex(0, <<>>), ObjectReference(<<"ArgObj", 0>>),
     OperationRegion("SystemMemory", IntegerConstant(0), IntegerConstant(1), "accessor", <<>>),
     PowerResource(0, 0, <<>>), Processor(0, <<>>, <<>>),
     ThermalZone(<<>>)}
    \cup {Buffer(b) : b \in Bytes}
    \cup {RawDataBuffer(b) : b \in Bytes}
    \cup Packages

StringValues(n) == {String(s) : s \in Strings(n)}

Values == NonStringValues \cup StringValues(2)

Modifiers == NonStringValues \cup StringValues(MaxModifierLen)

----------------------------------------------------------------------------
(* Values of the variables a specification leaves alone *)

NoResult == <<"Unset", <<>>>>
Absent == <<"Absent", <<>>>>
NoCtx == [scope |-> <<>>, arg_vars |-> <<>>, namespace_delta |-> {}, state |-> <<"EXECUTING", <<>>>>]

ObjectNames == {<<Root, "A">>, <<Root, "A", Separator, "A">>}

ValueIdle ==
    /\ value = AmlNone
    /\ orig = AmlNone
    /\ accessor = ""
    /\ out = NoResult

PathIdle ==
    /\ current = <<>>
    /\ modifier_v = AmlNone
    /\ path = <<>>
    /\ called = FALSE

ExecIdle ==
    /\ pc = "idle"
    /\ scope = <<>>
    /\ parameters = <<>>
    /\ ctx = NoCtx
    /\ namespace = [n \in ObjectNames |-> Absent]
    /\ before = [n \in ObjectNames |-> Absent]
    /\ result = NoResult
    /\ steps = <<>>

----------------------------------------------------------------------------
(* Narrowing accessors called on a constructed value *)

InitValue ==
    /\ value \in Values
    /\ orig = value
    /\ accessor = ""
    /\ out = NoResult
    /\ PathIdle
    /\ ExecIdle

Narrow(name, r) ==
    /\ accessor' = name
    /\ out' = r
    /\ UNCHANGED <<value, orig>>
    /\ UNCHANGED pathVars
    /\ UNCHANGED execVars

GetAsEvent == Narrow("get_as_event", get_as_event(value))

GetAsString == Narrow("get_as_string", get_as_string(value))

GetAsBuffer == Narrow("get_as_buffer", get_as_buffer(value))

GetAsPackage == Narrow("get_as_package", get_as_package(value))

GetAsInteger == Narrow("get_as_integer", get_as_integer(value))

GetAsMethod == Narrow("get_as_method", get_as_method(value))

NextValue ==
    \/ GetAsEvent
    \/ GetAsString
    \/ GetAsBuffer
    \/ GetAsPackage
    \/ GetAsInteger
    \/ GetAsMethod

SpecValue == InitValue /\ [][NextValue]_vars

----------------------------------------------------------------------------
(* get_namespace_string called on a current path and a modifier value *)

InitPath ==
    /\ current \in Strings(MaxCurrentLen)
    /\ modifier_v = AmlNone
    /\ path = <<>>
    /\ called = FALSE
    /\ ValueIdle
    /\ ExecIdle

GetNamespaceString ==
    \E m \in Modifiers :
        /\ ~called
        /\ modifier_v' = m
        /\ path' = get_namespace_string(current, m)
        /\ called' = TRUE
        /\ UNCHANGED current
        /\ UNCHANGED valueVars
        /\ UNCHANGED execVars

NextPath == GetNamespaceString

SpecPath == InitPath /\ [][NextPath]_vars

----------------------------------------------------------------------------
(* The execution context and the interpreter Method::execute calls into *)

EXECUTING == <<"EXECUTING", <<>>>>
RETURN(v) == <<"RETURN", v>>
EXIT == <<"EXIT", <<>>>>

ExecValues == {IntegerConstant(0), Integer(1), String(<<"A">>)}

Scopes == {<<Root>>, <<Root, "A">>}

ParameterLists == UNION {[1..k -> ExecValues] : k \in 0..MaxParameters}

\* AmlExecutionContext::new(scope)
AmlExecutionContext_new(s) ==
    [scope |-> s, arg_vars |-> <<>>, namespace_delta |-> {}, state |-> EXECUTING]

\* ctx.init_arg_vars(parameters)
init_arg_vars(c, params) ==
    [c EXCEPT !.arg_vars = [i \in 1..Len(params) |-> params[i]]]

\* ctx.clean_namespace(): the namespace without the objects ctx declared
clean_namespace(c, ns) ==
    [n \in DOMAIN ns |-> IF n \in c.namespace_delta THEN Absent ELSE ns[n]]

----------------------------------------------------------------------------
(* Method::execute *)

InitExec ==
    /\ pc = "idle"
    /\ scope = <<>>
    /\ parameters = <<>>
    /\ ctx = NoCtx
    /\ namespace \in [ObjectNames -> ExecValues \cup {Absent}]
    /\ before = namespace
    /\ result = NoResult
    /\ steps = <<>>
    /\ ValueIdle
    /\ PathIdle

\* line 156: execute is entered with a scope and a parameter list
Execute ==
    \E s \in Scopes, params \in ParameterLists :
        /\ pc \in {"idle", "done"}
        /\ pc' = "new"
        /\ scope' = s
        /\ parameters' = params
        /\ ctx' = NoCtx
        /\ before' = namespace
        /\ result' = NoResult
        /\ steps' = <<>>
        /\ UNCHANGED namespace
        /\ UNCHANGED valueVars
        /\ UNCHANGED pathVars

\* execute that starts interpreting right after creating the context
ExecuteNewThenParse ==
    /\ pc = "new"
    /\ pc' = "parse_term_list"
    /\ ctx' = AmlExecutionContext_new(scope)
    /\ steps' = Append(steps, "new")
    /\ UNCHANGED <<scope, parameters, namespace, before, result>>
    /\ UNCHANGED valueVars
    /\ UNCHANGED pathVars

\* line 157: let mut ctx = AmlExecutionContext::new(scope)
ExecuteNew ==
    /\ pc = "new"
    /\ pc' = "init_arg_vars"
    /\ ctx' = AmlExecutionContext_new(scope)
    /\ steps' = Append(steps, "new")
    /\ UNCHANGED <<scope, parameters, namespace, before, result>>
    /\ UNCHANGED valueVars
    /\ UNCHANGED pathVars

\* line 158: ctx.init_arg_vars(parameters)
ExecuteInitArgVars ==
    /\ pc = "init_arg_vars"
    /\ pc' = "parse_term_list"
    /\ ctx' = init_arg_vars(ctx, parameters)
    /\ steps' = Append(steps, "init_arg_vars")
    /\ UNCHANGED <<scope, parameters, namespace, before, result>>
    /\ UNCHANGED valueVars
    /\ UNCHANGED pathVars

\* line 160: parse_term_list(&self.term_list[..], &mut ctx) is entered
ExecuteParseTermList ==
    /\ pc = "parse_term_list"
    /\ pc' = "interpreting"
    /\ steps' = Append(steps, "parse_term_list")
    /\ UNCHANGED <<scope, parameters, ctx, namespace, before, result>>
    /\ UNCHANGED valueVars
    /\ UNCHANGED pathVars

\* the interpreter declares a namespace object
TermDeclare ==
    \E n \in ObjectNames, v \in ExecValues :
        /\ pc = "interpreting"
        /\ namespace[n] = Absent
        /\ namespace' = [namespace EXCEPT ![n] = v]
        /\ ctx' = [ctx EXCEPT !.namespace_delta = @ \cup {n}]
        /\ UNCHANGED <<pc, scope, parameters, before, result, steps>>
        /\ UNCHANGED valueVars
        /\ UNCHANGED pathVars

\* the interpreter stores into an object that already exists
TermStore ==
    \E n \in ObjectNames, v \in ExecValues :
        /\ pc = "interpreting"
        /\ namespace[n] # Absent
        /\ namespace' = [namespace EXCEPT ![n] = v]
        /\ UNCHANGED <<pc, scope, parameters, ctx, before, result, steps>>
        /\ UNCHANGED valueVars
        /\ UNCHANGED pathVars

\* the interpreter meets an explicit return carrying v
TermReturn ==
    \E v \in ExecValues \cup {ctx.arg_vars[i] : i \in DOMAIN ctx.arg_vars} :
        /\ pc = "interpreting"
        /\ pc' = "clean_namespace"
        /\ ctx' = [ctx EXCEPT !.state = RETURN(v)]
        /\ UNCHANGED <<scope, parameters, namespace, before, result, steps>>
        /\ UNCHANGED valueVars
        /\ UNCHANGED pathVars

\* the interpreter meets a control-flow exit nothing in the body resolves
TermExit ==
    /\ pc = "interpreting"
    /\ pc' = "clean_namespace"
    /\ ctx' = [ctx EXCEPT !.state = EXIT]
    /\ UNCHANGED <<scope, parameters, namespace, before, result, steps>>
    /\ UNCHANGED valueVars
    /\ UNCHANGED pathVars

\* the interpreter reaches the end of the term list
TermEnd ==
    /\ pc = "interpreting"
    /\ pc' = "clean_namespace"
    /\ UNCHANGED <<scope, parameters, ctx, namespace, before, result, steps>>
    /\ UNCHANGED valueVars
    /\ UNCHANGED pathVars

\* execute that leaves the namespace as the interpreter left it
ExecuteKeepNamespace ==
    /\ pc = "clean_namespace"
    /\ pc' = "match"
    /\ steps' = Append(steps, "clean_namespace")
    /\ UNCHANGED <<scope, parameters, ctx, namespace, before, result>>
    /\ UNCHANGED valueVars
    /\ UNCHANGED pathVars

\* line 161: ctx.clean_namespace()
ExecuteCleanNamespace ==
    /\ pc = "clean_namespace"
    /\ pc' = "match"
    /\ namespace' = clean_namespace(ctx, namespace)
    /\ steps' = Append(steps, "clean_namespace")
    /\ UNCHANGED <<scope, parameters, ctx, before, result>>
    /\ UNCHANGED valueVars
    /\ UNCHANGED pathVars

\* execute that yields zero whatever the terminal state
ExecuteMatchAlwaysZero ==
    /\ pc = "match"
    /\ pc' = "done"
    /\ result' = IntegerConstant(0)
    /\ steps' = Append(steps, "match")
    /\ UNCHANGED <<scope, parameters, ctx, namespace, before>>
    /\ UNCHANGED valueVars
    /\ UNCHANGED pathVars

\* lines 163-166: match ctx.state
ExecuteMatch ==
    /\ pc = "match"
    /\ pc' = "done"
    /\ result' = IF ctx.state[1] = "RETURN" THEN ctx.state[2] ELSE IntegerConstant(0)
    /\ steps' = Append(steps, "match")
    /\ UNCHANGED <<scope, parameters, ctx, namespace, before>>
    /\ UNCHANGED valueVars
    /\ UNCHANGED pathVars

Next ==
    \/ Execute
    \/ ExecuteNew
    \/ ExecuteInitArgVars
    \/ ExecuteParseTermList
    \/ TermDeclare
    \/ TermStore
    \/ TermReturn
    \/ TermExit
    \/ TermEnd
    \/ ExecuteCleanNamespace
    \/ ExecuteMatch

Init == InitExec

Spec == Init /\ [][Next]_vars

----------------------------------------------------------------------------
(* Properties of Method::execute, checked under Spec *)

\* C1: when execute has returned, its result is v if the terminal state of
\* the context is an explicit return carrying v, and IntegerConstant(0) for
\* every other terminal state, whatever the scope and the parameters.
ExecuteYieldsReturnOrZero ==
    pc = "done" =>
        /\ ctx.state[1] = "RETURN" => result = ctx.state[2]
        /\ ctx.state[1] # "RETURN" => result = IntegerConstant(0)

ExecuteReturnedValue ==
    /\ pc = "done"
    /\ Len(parameters) > 0
    /\ ctx.state = RETURN(Integer(1))
    /\ result = Integer(1)

\* C2: once execute has cleaned up, every object the method declared is gone
\* again: a name is present in the namespace exactly if it was present when
\* execute was entered, whatever terminal state the interpretation ended in.
TransientObjectsDiscarded ==
    pc \in {"match", "done"} =>
        /\ \A n \in ObjectNames : (namespace[n] = Absent) <=> (before[n] = Absent)
        /\ \A n \in ctx.namespace_delta : namespace[n] = Absent

DeclaredThenDiscarded ==
    /\ pc = "done"
    /\ ctx.namespace_delta # {}
    /\ ctx.state = EXIT
    /\ \E n \in ObjectNames : before[n] # Absent /\ namespace[n] # before[n]

\* C9: the calls of one invocation happen once each and in the order new,
\* init_arg_vars, parse_term_list, clean_namespace, match; the interpreter
\* only runs with the arguments bound, and a result only exists after the
\* cleanup.
ExecuteStepOrder ==
    LET order == <<"new", "init_arg_vars", "parse_term_list", "clean_namespace", "match">>
    IN  /\ Len(steps) <= Len(order)
        /\ steps = SubSeq(order, 1, Len(steps))
        /\ pc = "interpreting" =>
              /\ steps = SubSeq(order, 1, 3)
              /\ ctx.arg_vars = parameters
        /\ (ctx.namespace_delta # {} \/ ctx.state # EXECUTING) =>
              /\ Len(steps) >= 3
              /\ ctx.arg_vars = parameters
        /\ result # NoResult => steps = order
        /\ pc = "done" => steps = order /\ result # NoResult

ExecuteRanAllSteps ==
    /\ pc = "done"
    /\ Len(steps) = 5
    /\ Len(parameters) > 0
    /\ ctx.namespace_delta # {}
    /\ ctx.state[1] = "RETURN"

----------------------------------------------------------------------------
(* Properties of the narrowing accessors, checked under SpecValue *)

\* C6: get_as_string returns the text of a String value and the
\* value-type-mismatch error for a value of any other variant.
StringNarrowing ==
    accessor = "get_as_string" =>
        /\ Tag(value) = "String" => out = Ok(Payload(value))
        /\ Tag(value) # "String" => out = Err(AmlValueError)

StringNarrowed ==
    /\ accessor = "get_as_string"
    /\ value = String(<<"A", Separator>>)
    /\ out = Ok(<<"A", Separator>>)

\* C7: each accessor succeeds on exactly its own variant and returns the
\* type-mismatch error on all others, so at most one accessor succeeds on a
\* value; get_as_integer fails on a plain Integer.
VariantExactNarrowing ==
    LET variant == [a \in {"get_as_event", "get_as_string", "get_as_buffer",
                           "get_as_package", "get_as_integer", "get_as_method"} |->
                      CASE a = "get_as_event" -> "Event"
                        [] a = "get_as_string" -> "String"
                        [] a = "get_as_buffer" -> "Buffer"
                        [] a = "get_as_package" -> "Package"
                        [] a = "get_as_integer" -> "IntegerConstant"
                        [] a = "get_as_method" -> "Method"]
        succeeds == {r \in {get_as_event(value), get_as_string(value),
                            get_as_buffer(value), get_as_package(value),
                            get_as_integer(value), get_as_method(value)} : r[1] = "Ok"}
    IN  /\ accessor # "" =>
              /\ out[1] = "Ok" <=> Tag(value) = variant[accessor]
              /\ out[1] # "Ok" => out = Err(AmlValueError)
        /\ Cardinality(succeeds) <= 1
        /\ (accessor = "get_as_integer" /\ Tag(value) = "Integer") =>
              out = Err(AmlValueError)

PlainIntegerRefused ==
    /\ accessor = "get_as_integer"
    /\ value = Integer(1)
    /\ out = Err(AmlValueError)

\* C8: narrowing a package built from a sequence of values gives back a
\* sequence of the same length with the same elements in the same order, and
\* the package value is as it was built.
PackageRoundTrip ==
    (accessor = "get_as_package" /\ Tag(orig) = "Package") =>
        /\ out[1] = "Ok"
        /\ Len(out[2]) = Len(Payload(orig))
        /\ \A i \in 1..Len(Payload(orig)) : out[2][i] = Payload(orig)[i]
        /\ value = orig

PackageNarrowed ==
    /\ accessor = "get_as_package"
    /\ orig = Package(<<Integer(1), Package(<<Integer(1), Integer(2)>>)>>)
    /\ out[1] = "Ok"

----------------------------------------------------------------------------
(* Properties of get_namespace_string, checked under SpecPath *)

\* C3: for a String modifier that does not begin with '^' the returned path
\* is: modifier if current is empty; else current if modifier is empty; else
\* modifier if it begins with '\'; else current and modifier joined by one
\* '.', which is left out when current ends with '\'.
ResolveFollowsRules ==
    (called /\ Tag(modifier_v) = "String" /\ ~starts_with(Payload(modifier_v), Parent)) =>
        LET m == Payload(modifier_v)
        IN  path = CASE current = <<>> -> m
                     [] current # <<>> /\ m = <<>> -> current
                     [] current # <<>> /\ m # <<>> /\ m[1] = Root -> m
                     [] current # <<>> /\ m # <<>> /\ m[1] # Root
                          /\ current[Len(current)] = Root -> current \o m
                     [] OTHER -> current \o <<Separator>> \o m

ResolveJoined ==
    /\ called
    /\ current = <<Root, "A">>
    /\ modifier_v = String(<<"A">>)
    /\ path = <<Root, "A", Separator, "A">>

\* C4: for a non-empty current and a String modifier that begins with '^'
\* markers, the returned path is current with one level popped per marker,
\* followed by the rest of the modifier; the markers are not in the path.
ParentMarkersPop ==
    (called /\ current # <<>> /\ Tag(modifier_v) = "String"
            /\ starts_with(Payload(modifier_v), Parent)) =>
        LET m == Payload(modifier_v)
            markers == CHOOSE k \in 1..Len(m) :
                          /\ \A i \in 1..k : m[i] = Parent
                          /\ k = Len(m) \/ m[k + 1] # Parent
            rest == SubSeq(m, markers + 1, Len(m))
            seps(p) == {i \in 1..Len(p) : p[i] = Separator}
            pop(p) == IF seps(p) # {}
                      THEN SubSeq(p, 1, (CHOOSE i \in seps(p) : \A j \in seps(p) : j <= i) - 1)
                      ELSE IF starts_with(p, Root) THEN <<Root>> ELSE <<>>
            RECURSIVE popN(_, _)
            popN(p, k) == IF k = 0 THEN p ELSE popN(pop(p), k - 1)
            parent == popN(current, markers)
        IN  path = IF rest = <<>> THEN parent
                   ELSE IF parent = <<>> THEN rest
                   ELSE IF ends_with(parent, Root) THEN parent \o rest
                   ELSE parent \o <<Separator>> \o rest

RelativeOnlyFromEmpty ==
    called =>
        /\ starts_with(current, Root) => starts_with(path, Root)
        /\ ~starts_with(path, Root) => current = <<>>

\* C10: an absolute current gives an absolute path for every modifier value;
\* a path that is not absolute comes from a current that is not absolute,
\* empty or relative.
AbsoluteStaysAbsolute ==
    called =>
        /\ starts_with(current, Root) => starts_with(path, Root)
        /\ ~starts_with(path, Root) => (current = <<>> \/ current[1] # Root)

AbsoluteJoined ==
    /\ called
    /\ current = <<Root>>
    /\ modifier_v = String(<<Parent, "A">>)
    /\ path = <<Root, Parent, "A">>

====
